---- MODULE Spec2Model ----
(***************************************************************************)
(* Model of the conversion page src/src/routes/+page.svelte: the engine    *)
(* lifecycle (loadFFmpeg), the capability parser (getFormatsFromLog), the  *)
(* drop handler (onDropped) and the conversion job (convertVideo).         *)
(*                                                                         *)
(* Strings are TLA+ strings (sequences of characters); the log lines and   *)
(* file names are drawn from small sets.  The engine (@ffmpeg/ffmpeg) is   *)
(* external: it is modelled as a worker that serves the calls posted to it *)
(* one at a time, in the order they were posted, over a virtual file       *)
(* system keyed by name.  Each await of the page is a step of its own: the *)
(* code up to the await is one action, the continuation the next.          *)
(***************************************************************************)
EXTENDS Integers, Sequences, FiniteSets, TLC

\* ------------------------------------------------------------------ bounds

\* Conversion jobs (accepted drops) followed in one session.
MaxJobs == 2

\* Log lines given to the capability parser when it is checked on its own.
MaxLines == 2

\* --------------------------------------------------------------- inputs

\* What the engine may log for the format listing: a header and capability
\* rows.  The listing may stop after any line, so the page sees every prefix:
\* no format, a demux-only format, a format list whose first mux-capable
\* format is mp4, one whose first is webm.
Listings ==
  { << "File formats:",
       " D  asf   ASF (Advanced Streaming Format)",
       " DE mp4   MP4 (MPEG-4 Part 14)",
       "  E webm  WebM" >>,
    << "  E webm  WebM",
       " DE mp4   MP4 (MPEG-4 Part 14)" >> }

LogLines == UNION { { listing[i] : i \in 1..Len(listing) } : listing \in Listings }

IsPrefix(p, q) == Len(p) <= Len(q) /\ SubSeq(q, 1, Len(p)) = p

\* Names of dropped files.
FileNames == { "a.mp4", "a.xyz", "a." }

\* The drop events: the names of the files a drop carries.
FileLists ==
  { << >> } \cup { << name >> : name \in FileNames }
            \cup { << "a.mp4", name >> : name \in FileNames }

\* Progress the engine reports, in tenths of the whole (event.progress * 10).
ProgressTenths == { 0, 10 }

\* Exit codes of an execute.
ExitCodes == { 0, 1 }

\* ------------------------------------------------------------- strings

Char(s, i) == SubSeq(s, i, i)

IsSpace(c) == c \in { " ", "\t" }

\* String.prototype.trim
Trim(s) ==
  LET idx == { i \in 1..Len(s) : ~IsSpace(Char(s, i)) }
  IN  IF idx = {} THEN ""
      ELSE LET first == CHOOSE i \in idx : \A k \in idx : i <= k
               last  == CHOOSE i \in idx : \A k \in idx : k <= i
           IN  SubSeq(s, first, last)

\* String.prototype.includes
Includes(s, sub) ==
  \E i \in 1..(Len(s) - Len(sub) + 1) : SubSeq(s, i, i + Len(sub) - 1) = sub

\* String.prototype.endsWith
EndsWith(s, suffix) ==
  /\ Len(suffix) <= Len(s)
  /\ SubSeq(s, Len(s) - Len(suffix) + 1, Len(s)) = suffix

\* name.split(".").pop() : the text after the last "." (all of it without one)
LastSegment(s) ==
  LET dots == { i \in 1..Len(s) : Char(s, i) = "." }
  IN  IF dots = {} THEN s
      ELSE LET last == CHOOSE i \in dots : \A k \in dots : k <= i
           IN  SubSeq(s, last + 1, Len(s))

\* The index after the longest run of characters from i on that are all
\* whitespace (space = TRUE) or all non-whitespace (space = FALSE): what a
\* greedy \s+ or \S+ consumes.
RunEnd(s, i, space) ==
  CHOOSE j \in i..(Len(s) + 1) :
    /\ \A k \in i..(j - 1) : IsSpace(Char(s, k)) = space
    /\ j = Len(s) + 1 \/ IsSpace(Char(s, j)) # space

\* ------------------------------------------------------ capability parser

\* The length of group 1 of /^(D|DE|E)\s+.../ : the alternatives are tried in
\* order and whitespace must follow; 0 when none fits.
SupportLen(t) ==
  IF Len(t) >= 2 /\ Char(t, 1) = "D" /\ IsSpace(Char(t, 2)) THEN 1
  ELSE IF Len(t) >= 3 /\ SubSeq(t, 1, 2) = "DE" /\ IsSpace(Char(t, 3)) THEN 2
  ELSE IF Len(t) >= 2 /\ Char(t, 1) = "E" /\ IsSpace(Char(t, 2)) THEN 1
  ELSE 0

\* formatLineRegex = /^(D|DE|E)\s+(\S+)\s+(.+)$/ on a line: the positions of
\* the groups, and whether the line matches.
FormatLineMatch(t) ==
  LET n == SupportLen(t)
      a == RunEnd(t, n + 1, TRUE)
      b == IF a <= Len(t) THEN RunEnd(t, a, FALSE) ELSE a
      c == IF b <= Len(t) THEN RunEnd(t, b, TRUE) ELSE b
  IN  [ ok           |-> n > 0 /\ a > n + 1 /\ b > a /\ c > b /\ c <= Len(t),
        support      |-> SubSeq(t, 1, n),
        abbreviation |-> SubSeq(t, a, b - 1),
        name         |-> SubSeq(t, c, Len(t)) ]

\* The parser applied to the lines as logged, without line.trim().
RECURSIVE getFormatsFromLog_untrimmed(_)
getFormatsFromLog_untrimmed(logMessages) ==
  IF logMessages = << >> THEN << >>
  ELSE LET match == FormatLineMatch(Head(logMessages))
           rest  == getFormatsFromLog_untrimmed(Tail(logMessages))
       IN  IF ~match.ok THEN rest
           ELSE << [ demuxingSupported |-> Includes(match.support, "D"),
                     muxingSupported   |-> Includes(match.support, "E"),
                     abbreviation      |-> match.abbreviation,
                     name              |-> match.name ] >> \o rest

RECURSIVE getFormatsFromLog(_)
getFormatsFromLog(logMessages) ==
  IF logMessages = << >> THEN << >>
  ELSE LET trimmedLine == Trim(Head(logMessages))
           match       == FormatLineMatch(trimmedLine)
           rest        == getFormatsFromLog(Tail(logMessages))
       IN  IF ~match.ok THEN rest
           ELSE << [ demuxingSupported |-> Includes(match.support, "D"),
                     muxingSupported   |-> Includes(match.support, "E"),
                     abbreviation      |-> match.abbreviation,
                     name              |-> match.name ] >> \o rest

\* ------------------------------------------------------------------ state

VARIABLES
  status,                \* let status
  error,                 \* let error
  progress,              \* the value the tweened store was last set to
  formats,               \* let formats
  selectedOutputFormat,  \* let selectedOutputFormat
  loadPc,                \* where loadFFmpeg is
  loggedFormats,         \* loadFFmpeg's loggedFormats
  jobs,                  \* one record per call of convertVideo
  worker,                \* the calls posted to the engine, oldest first
  fs                     \* the engine's virtual file system: name -> bytes

vars == << status, error, progress, formats, selectedOutputFormat, loadPc,
           loggedFormats, jobs, worker, fs >>

Status == { "loading", "loaded", "convert.start", "convert.done", "convert.error" }

INPUT_FILE == "input.webm"

READ_BACK_FILE == "output.mp4"

Call(op, job, arg) == [ op |-> op, job |-> job, arg |-> arg ]

Running(op) == worker # << >> /\ Head(worker).op = op

Init ==
  /\ status = "loading"
  /\ error = ""
  /\ progress = 0
  /\ formats = << >>
  /\ selectedOutputFormat = ""
  /\ loadPc = "start"
  /\ loggedFormats = << >>
  /\ jobs = << >>
  /\ worker = << >>
  /\ fs = {}

\* -------------------------------------------------------------- the engine

\* The virtual file system is a set of <<name, bytes>> pairs, one per name.
\* The bytes of a dropped file are the number of the job that read them; the
\* bytes an execute produces from them are their negative.
FsHas(name) == \E f \in fs : f[1] = name

FsRead(name) == (CHOOSE f \in fs : f[1] = name)[2]

FsWrite(name, bytes) == { f \in fs : f[1] # name } \cup { << name, bytes >> }

Encoded(bytes) == 0 - bytes

\* ------------------------------------------------------------- loadFFmpeg

\* The effect re-run once loadFFmpeg has returned (as it would be if it read
\* reactive state before its first await): the engine is loaded and listed
\* again, into a new loggedFormats.
loadFFmpeg_rerun ==
  /\ loadPc \in { "start", "done" }
  /\ status' = "loading"
  /\ worker' = Append(worker, Call("load", 0, ""))
  /\ loadPc' = "load"
  /\ loggedFormats' = << >>
  /\ UNCHANGED << error, progress, formats, selectedOutputFormat, jobs, fs >>

\* $effect: loadFFmpeg up to the await of ffmpeg.load
loadFFmpeg ==
  /\ loadPc = "start"
  /\ status' = "loading"
  /\ worker' = Append(worker, Call("load", 0, ""))
  /\ loadPc' = "load"
  /\ UNCHANGED << error, progress, formats, selectedOutputFormat,
                  loggedFormats, jobs, fs >>

\* ffmpeg.load settles: on success the page is marked loaded and the format
\* listing is posted; a rejection ends loadFFmpeg.
loadFFmpeg_loaded(ok) ==
  /\ Running("load")
  /\ IF ok
       THEN /\ status' = "loaded"
            /\ worker' = Append(Tail(worker), Call("formats", 0, "-formats"))
            /\ loadPc' = "formats"
       ELSE /\ worker' = Tail(worker)
            /\ loadPc' = "threw"
            /\ UNCHANGED status
  /\ UNCHANGED << error, progress, formats, selectedOutputFormat,
                  loggedFormats, jobs, fs >>

\* The value loadFFmpeg leaves in selectedOutputFormat for a format list.
FirstOutputFormat(fmts, current) ==
  LET outputFormats == SelectSeq(fmts, LAMBDA f : f.muxingSupported)
  IN  IF Len(outputFormats) > 0 THEN outputFormats[1].abbreviation ELSE current

\* ffmpeg.exec(["-formats"]) resolves: the collected lines are parsed.
loadFFmpeg_listed ==
  /\ Running("formats")
  /\ worker' = Tail(worker)
  /\ formats' = getFormatsFromLog(loggedFormats)
  /\ selectedOutputFormat' = FirstOutputFormat(formats', selectedOutputFormat)
  /\ loadPc' = "done"
  /\ UNCHANGED << status, error, progress, loggedFormats, jobs, fs >>

\* The engine is executing (the format listing or a conversion).
Executing == Running("formats") \/ Running("exec")

\* ffmpeg.on("progress", ...)
onProgress(tenths) ==
  /\ Executing
  /\ progress' = tenths * 10
  /\ UNCHANGED << status, error, formats, selectedOutputFormat, loadPc,
                  loggedFormats, jobs, worker, fs >>

\* ffmpeg.on("log", logFormatOutput): the listener stays subscribed for the
\* life of the page.  The array is followed, within the listings, until
\* loadFFmpeg has parsed it: nothing reads what is pushed after that.
logFormatOutput(message) ==
  /\ Executing
  /\ IF loadPc = "formats"
       THEN /\ \E listing \in Listings : IsPrefix(Append(loggedFormats, message), listing)
            /\ loggedFormats' = Append(loggedFormats, message)
       ELSE UNCHANGED loggedFormats
  /\ UNCHANGED << status, error, progress, formats, selectedOutputFormat,
                  loadPc, jobs, worker, fs >>

\* bind:group={selectedOutputFormat}: one radio button per mux-capable format
SelectableFormats ==
  { formats[i].abbreviation : i \in { k \in 1..Len(formats) : formats[k].muxingSupported } }

selectOutputFormat(abbreviation) ==
  /\ abbreviation \in SelectableFormats
  /\ selectedOutputFormat' = abbreviation
  /\ UNCHANGED << status, error, progress, formats, loadPc, loggedFormats,
                  jobs, worker, fs >>

\* ----------------------------------------------------------- convertVideo

\* A call of convertVideo: where it is, the name of its file, the output name
\* it passed to the execute, the exit code it got (<< >> before that), and
\* the bytes onDropped handed to download (<< >> when none).
Job(pc, video) ==
  [ pc |-> pc, video |-> video, output |-> "", result |-> << >>, data |-> << >> ]

\* The entry of convertVideo without the reset of error.
convertVideo_keepsError(video) ==
  /\ status' = "convert.start"
  /\ UNCHANGED error
  /\ jobs' = Append(jobs, Job("fetchFile", video))

\* convertVideo up to the await of fetchFile
convertVideo(video) ==
  /\ status' = "convert.start"
  /\ error' = ""
  /\ jobs' = Append(jobs, Job("fetchFile", video))

\* fetchFile resolves: the input bytes are posted for writing.
convertVideo_fetched(j) ==
  /\ j \in 1..Len(jobs)
  /\ jobs[j].pc = "fetchFile"
  /\ worker' = Append(worker, Call("writeFile", j, INPUT_FILE))
  /\ jobs' = [ jobs EXCEPT ![j].pc = "writeFile" ]
  /\ UNCHANGED << status, error, progress, formats, selectedOutputFormat,
                  loadPc, loggedFormats, fs >>

\* ffmpeg.writeFile settles: on success the conversion is posted, with the
\* output format selected at that moment; a rejection ends the job.
convertVideo_written(ok) ==
  /\ Running("writeFile")
  /\ LET j == Head(worker).job
     IN  IF ok
         THEN LET output == "output." \o selectedOutputFormat
              IN  /\ fs' = FsWrite(Head(worker).arg, j)
                  /\ worker' = Append(Tail(worker), Call("exec", j, output))
                  /\ jobs' = [ jobs EXCEPT ![j].pc = "exec", ![j].output = output ]
         ELSE /\ worker' = Tail(worker)
              /\ jobs' = [ jobs EXCEPT ![j].pc = "threw" ]
              /\ UNCHANGED fs
  /\ UNCHANGED << status, error, progress, formats, selectedOutputFormat,
                  loadPc, loggedFormats >>

\* The continuation without the check of the exit code: every execute is
\* followed by the read-back.
convertVideo_executed_unchecked(result) ==
  /\ Running("exec")
  /\ LET j == Head(worker).job
     IN  /\ fs' = FsWrite(Head(worker).arg, Encoded(FsRead(INPUT_FILE)))
         /\ worker' = Append(Tail(worker), Call("readFile", j, READ_BACK_FILE))
         /\ jobs' = [ jobs EXCEPT ![j].pc = "readFile", ![j].result = << result >> ]
  /\ UNCHANGED << status, error, progress, formats, selectedOutputFormat,
                  loadPc, loggedFormats >>

\* The continuation that marks the failure without recording its message.
convertVideo_executed_noMessage(result) ==
  /\ Running("exec")
  /\ LET j == Head(worker).job
     IN  IF result # 0
         THEN /\ status' = "convert.error"
              /\ worker' = Tail(worker)
              /\ jobs' = [ jobs EXCEPT ![j].pc = "returned", ![j].result = << result >> ]
              /\ UNCHANGED << error, fs >>
         ELSE /\ fs' = FsWrite(Head(worker).arg, Encoded(FsRead(INPUT_FILE)))
              /\ worker' = Append(Tail(worker), Call("readFile", j, READ_BACK_FILE))
              /\ jobs' = [ jobs EXCEPT ![j].pc = "readFile", ![j].result = << result >> ]
              /\ UNCHANGED << status, error >>
  /\ UNCHANGED << progress, formats, selectedOutputFormat, loadPc, loggedFormats >>

\* ffmpeg.exec resolves with an exit code: 0 posts the read-back, anything
\* else records the failure and returns nothing.
convertVideo_executed(result) ==
  /\ Running("exec")
  /\ LET j == Head(worker).job
     IN  IF result # 0
         THEN /\ error' = "Failed to convert video"
              /\ status' = "convert.error"
              /\ worker' = Tail(worker)
              /\ jobs' = [ jobs EXCEPT ![j].pc = "returned", ![j].result = << result >> ]
              /\ UNCHANGED fs
         ELSE /\ fs' = FsWrite(Head(worker).arg, Encoded(FsRead(INPUT_FILE)))
              /\ worker' = Append(Tail(worker), Call("readFile", j, READ_BACK_FILE))
              /\ jobs' = [ jobs EXCEPT ![j].pc = "readFile", ![j].result = << result >> ]
              /\ UNCHANGED << status, error >>
  /\ UNCHANGED << progress, formats, selectedOutputFormat, loadPc, loggedFormats >>

\* download(data), as onDropped calls it with what convertVideo returned
download(j, data) == [ jobs EXCEPT ![j].pc = "downloaded", ![j].data = << data >> ]

\* ffmpeg.readFile settles: the bytes under the name are returned to
\* onDropped, which downloads them; a missing file rejects and ends the job.
convertVideo_read ==
  /\ Running("readFile")
  /\ worker' = Tail(worker)
  /\ LET j == Head(worker).job
     IN  IF FsHas(Head(worker).arg)
         THEN /\ status' = "convert.done"
              /\ jobs' = download(j, FsRead(Head(worker).arg))
         ELSE /\ jobs' = [ jobs EXCEPT ![j].pc = "threw" ]
              /\ UNCHANGED status
  /\ UNCHANGED << error, progress, formats, selectedOutputFormat, loadPc,
                  loggedFormats, fs >>

\* -------------------------------------------------------------- onDropped

\* The validation without the discovered formats: any file name that ends
\* with its own extension passes.
IsFileFormatSupported_any(name, fileFormat) == EndsWith(name, fileFormat)

\* formats.filter(demuxingSupported).find(f => file.name.endsWith(fileFormat))
IsFileFormatSupported(name, fileFormat) ==
  LET demuxers == SelectSeq(formats, LAMBDA f : f.demuxingSupported)
  IN  \E i \in 1..Len(demuxers) : EndsWith(name, fileFormat)

\* The handler without the return of the multi-file branch: the message is
\* set and the first file goes on to validation and conversion.
onDropped_noReturn(files) ==
  /\ IF Len(files) = 0
       THEN UNCHANGED << status, error, jobs >>
     ELSE LET file       == files[1]
              fileFormat == LastSegment(file)
          IN  IF fileFormat = "" \/ ~IsFileFormatSupported(file, fileFormat)
              THEN /\ error' = "Data format " \o fileFormat \o " not supported"
                   /\ UNCHANGED << status, jobs >>
              ELSE /\ Len(jobs) < MaxJobs
                   /\ convertVideo(file)
  /\ UNCHANGED << progress, formats, selectedOutputFormat, loadPc,
                  loggedFormats, worker, fs >>

\* The handler with the file count tested as "not exactly one": an empty
\* drop gets the message of the multi-file drop.
onDropped_emptyRejected(files) ==
  /\ IF Len(files) # 1
       THEN /\ error' = "Only one file is allowed"
            /\ UNCHANGED << status, jobs >>
     ELSE LET file       == files[1]
              fileFormat == LastSegment(file)
          IN  IF fileFormat = "" \/ ~IsFileFormatSupported(file, fileFormat)
              THEN /\ error' = "Data format " \o fileFormat \o " not supported"
                   /\ UNCHANGED << status, jobs >>
              ELSE /\ Len(jobs) < MaxJobs
                   /\ convertVideo(file)
  /\ UNCHANGED << progress, formats, selectedOutputFormat, loadPc,
                  loggedFormats, worker, fs >>

onDropped(files) ==
  /\ IF Len(files) = 0
       THEN UNCHANGED << status, error, jobs >>
     ELSE IF Len(files) > 1
       THEN /\ error' = "Only one file is allowed"
            /\ UNCHANGED << status, jobs >>
     ELSE LET file       == files[1]
              fileFormat == LastSegment(file)
          IN  IF fileFormat = "" \/ ~IsFileFormatSupported(file, fileFormat)
              THEN /\ error' = "Data format " \o fileFormat \o " not supported"
                   /\ UNCHANGED << status, jobs >>
              ELSE /\ Len(jobs) < MaxJobs
                   /\ convertVideo(file)
  /\ UNCHANGED << progress, formats, selectedOutputFormat, loadPc,
                  loggedFormats, worker, fs >>

\* ---------------------------------------------------------- specification

Next ==
  \/ loadFFmpeg
  \/ \E ok \in BOOLEAN : loadFFmpeg_loaded(ok)
  \/ loadFFmpeg_listed
  \/ \E tenths \in ProgressTenths : onProgress(tenths)
  \/ \E message \in LogLines : logFormatOutput(message)
  \/ \E abbreviation \in SelectableFormats : selectOutputFormat(abbreviation)
  \/ \E files \in FileLists : onDropped(files)
  \/ \E j \in 1..MaxJobs : convertVideo_fetched(j)
  \/ \E ok \in BOOLEAN : convertVideo_written(ok)
  \/ \E result \in ExitCodes : convertVideo_executed(result)
  \/ convertVideo_read

Spec == Init /\ [][Next]_vars

TypeOK ==
  /\ status \in Status
  /\ progress \in 0..100
  /\ Len(jobs) <= MaxJobs

\* ------------------------------------------- the parser on arbitrary logs

\* Lines of a format listing: capability rows (with leading and trailing
\* blanks and a tab), the header and legend lines, a separator, an empty
\* line, a row without a name, a row with other flags.
ParserLines ==
  { "D  asf    ASF (Advanced Streaming Format)",
    "DE mp4    MP4 (MPEG-4 Part 14)",
    "  E webm\tWebM ",
    "File formats:",
    " D. = Demuxing supported",
    " --",
    "",
    "DE mp4",
    "DEV x  y" }

\* The logs of at most n lines.
RECURSIVE LogsUpTo(_)
LogsUpTo(n) ==
  IF n = 0 THEN { << >> }
  ELSE LET shorter == LogsUpTo(n - 1)
       IN  shorter \cup { Append(log, line) : log \in shorter, line \in ParserLines }

\* loadFFmpeg at the await of the format listing, with any log collected.
InitParser ==
  /\ status = "loaded"
  /\ error = ""
  /\ progress = 0
  /\ formats = << >>
  /\ selectedOutputFormat = ""
  /\ loadPc = "formats"
  /\ loggedFormats \in LogsUpTo(MaxLines)
  /\ jobs = << >>
  /\ worker = << Call("formats", 0, "-formats") >>
  /\ fs = {}

NextParser == loadFFmpeg_listed

SpecParser == InitParser /\ [][NextParser]_vars

\* ------------------------------------------------------------- properties

\* The abbreviations of the discovered formats that can be demuxed.
DemuxAbbreviations ==
  { formats[i].abbreviation : i \in { k \in 1..Len(formats) : formats[k].demuxingSupported } }

\* The jobs in progress: convertVideo has been called and has not ended.
InProgress ==
  { j \in 1..Len(jobs) : jobs[j].pc \in { "fetchFile", "writeFile", "exec", "readFile" } }

\* The calls posted to the engine for job j.
CallsOf(w, j) == { i \in 1..Len(w) : w[i].job = j }

\* A step posts nothing to the engine and starts no job.
NothingIssued == worker' = worker /\ jobs' = jobs /\ fs' = fs

\* C1: a single-file drop whose extension is not the abbreviation of a
\* discovered demux-capable format is rejected: status is unchanged, error
\* contains the extension, nothing is posted to the engine.
C1_UnsupportedExtensionRejected ==
  [][ \A name \in FileNames :
        ( /\ formats # << >>
          /\ LastSegment(name) \notin DemuxAbbreviations
          /\ onDropped(<< name >>) )
        => ( /\ status' = status
             /\ Includes(error', LastSegment(name))
             /\ NothingIssued ) ]_vars

\* The transitions the state machine defines.
DefinedTransitions ==
  { << "loading", "loaded" >>,
    << "loaded", "convert.start" >>,
    << "convert.start", "convert.done" >>,
    << "convert.start", "convert.error" >>,
    << "convert.done", "convert.start" >>,
    << "convert.error", "convert.start" >> }

\* C2: status has one of the five values and every change of it is one of
\* the defined transitions.
C2_OnlyDefinedTransitions ==
  [][ /\ status' \in Status
      /\ status' # status => << status, status' >> \in DefinedTransitions ]_vars

\* C3: never more than one call of convertVideo is in progress.
C3_AtMostOneJob == Cardinality(InProgress) <= 1

\* C4: the job of a valid drop in Loaded whose execute returned 0 ends in
\* Done with the bytes its execute produced handed to download, whatever
\* output format is selected.
C4_ExitZeroEndsDone ==
  [][ ( /\ Len(jobs) = 1
        /\ LastSegment(jobs[1].video) \in DemuxAbbreviations
        /\ \E f \in SelectableFormats : jobs[1].output = "output." \o f
        /\ jobs[1].result = << 0 >>
        /\ jobs[1].pc = "readFile"
        /\ jobs'[1].pc # "readFile" )
      => ( /\ status = "convert.start"
           /\ status' = "convert.done"
           /\ jobs'[1].pc = "downloaded"
           /\ jobs'[1].data = << Encoded(1) >> ) ]_vars

\* C5: when the execute of a job returns a non-zero exit code, status becomes
\* convert.error with a non-empty error message, the output is not read back,
\* the job returns no bytes and nothing is downloaded, then or later.
C5_NonZeroExitFails ==
  /\ [][ \A j \in 1..Len(jobs) :
          ( /\ jobs[j].result = << >>
            /\ jobs'[j].result # << >>
            /\ jobs'[j].result # << 0 >> )
          => ( /\ status' = "convert.error"
               /\ error' # ""
               /\ jobs'[j].pc = "returned"
               /\ jobs'[j].data = << >>
               /\ CallsOf(worker', j) = {}
               /\ fs' = fs ) ]_vars
  /\ [][ \A j \in 1..Len(jobs) :
          jobs[j].pc = "returned" => jobs'[j] = jobs[j] /\ CallsOf(worker', j) = {} ]_vars

\* C5 witness: a job's execute has returned a non-zero exit code.
C5_Witness ==
  \E j \in 1..Len(jobs) :
    /\ jobs[j].result = << 1 >>
    /\ jobs[j].pc = "returned"
    /\ status = "convert.error"
    /\ error = "Failed to convert video"

\* C6: a job whose write or read-back rejects moves to Failed with an error
\* message recorded.
C6_RejectionFails ==
  [][ \A j \in 1..Len(jobs) :
        ( jobs[j].pc # "threw" /\ jobs'[j].pc = "threw" )
        => ( status' = "convert.error" /\ error' # "" ) ]_vars

\* C7: a drop of more than one file leaves status unchanged, sets error to
\* "Only one file is allowed" and posts nothing to the engine.
C7_MultiFileDropRejected ==
  [][ \A files \in FileLists :
        ( Len(files) > 1 /\ onDropped(files) )
        => ( /\ status' = status
             /\ error' = "Only one file is allowed"
             /\ NothingIssued ) ]_vars

\* C7 witness: a multi-file drop has been rejected while a job was converting
\* (the error of the accepted drop had been cleared before).
C7_Witness ==
  /\ status = "convert.start"
  /\ InProgress # {}
  /\ error = "Only one file is allowed"

\* C8: whenever status is loaded, capability discovery has finished.
C8_LoadedAfterDiscovery == status = "loaded" => loadPc = "done"

\* C9: the name posted for the read-back is the output name the job passed
\* to its execute.
C9_ReadBackMatchesOutput ==
  \A i \in 1..Len(worker) :
    ( /\ worker[i].op = "readFile"
      /\ \E f \in SelectableFormats : jobs[worker[i].job].output = "output." \o f )
    => worker[i].arg = jobs[worker[i].job].output

\* C10: on every entry to Converting (every accepted drop) progress is 0.
C10_ProgressResetOnEntry ==
  [][ Len(jobs') > Len(jobs) => progress' = 0 ]_vars

\* C11: a valid single-file drop received in Done or Failed is accepted:
\* status becomes convert.start, the error is cleared and a job starts, all
\* in that step.
C11_RedropAccepted ==
  [][ \A name \in FileNames :
        ( /\ status \in { "convert.done", "convert.error" }
          /\ LastSegment(name) \in DemuxAbbreviations
          /\ onDropped(<< name >>) )
        => ( /\ status' = "convert.start"
             /\ error' = ""
             /\ Len(jobs') = Len(jobs) + 1
             /\ jobs'[Len(jobs')] = Job("fetchFile", name) ) ]_vars

\* C11 witness: the first job has failed, and a valid file dropped after that
\* has started the second job and cleared the message of the failure.
C11_Witness ==
  /\ Len(jobs) = 2
  /\ jobs[1].pc = "returned"
  /\ jobs[2].pc = "fetchFile"
  /\ LastSegment(jobs[2].video) \in DemuxAbbreviations
  /\ status = "convert.start"
  /\ error = ""

\* C12: a drop that carries no file changes nothing: status, error, progress,
\* the format list, the selected output format, the jobs and the engine's
\* calls and files are all as before.
C12_EmptyDropChangesNothing ==
  [][ onDropped(<< >>) => UNCHANGED vars ]_vars

\* C12 witness: an empty drop can arrive while a message is shown, progress
\* has been reported, formats are listed and a job is with the engine.
C12_Witness ==
  /\ ENABLED onDropped(<< >>)
  /\ error # ""
  /\ progress # 0
  /\ formats # << >>
  /\ selectedOutputFormat # ""
  /\ InProgress # {}
  /\ worker # << >>

\* The ways to cut t into <flags><whitespace><abbreviation><whitespace><name>
\* with flags D, DE or E: flags = t[1..n], abbreviation = t[a..b-1],
\* name = t[c..], blanks between them.
FlagCuts(t) == { n \in 1..2 : n < Len(t) /\ SubSeq(t, 1, n) \in { "D", "DE", "E" } }

\* The positions after a non-empty stretch from i of blanks (space = TRUE) or
\* of other characters (space = FALSE), with text left after it.
CutsAfter(t, i, space) ==
  { j \in (i + 1)..Len(t) : \A k \in i..(j - 1) : IsSpace(Char(t, k)) = space }

Shapes(t) ==
  UNION { UNION { UNION { { [ n |-> n, a |-> a, b |-> b, c |-> c ] :
                            c \in CutsAfter(t, b, TRUE) } :
                          b \in CutsAfter(t, a, FALSE) } :
                  a \in CutsAfter(t, n + 1, TRUE) } :
          n \in FlagCuts(t) }

\* The positions of the lines of a log that have the shape once trimmed.
ShapedLines(log) == { i \in 1..Len(log) : Shapes(Trim(log[i])) # {} }

\* Descriptor d is the one of line t: it is cut from t, and its two flags say
\* whether the flags of t contain D and E.
DescribesLine(d, t) ==
  \E cut \in Shapes(t) :
    /\ d.abbreviation = SubSeq(t, cut.a, cut.b - 1)
    /\ d.name = SubSeq(t, cut.c, Len(t))
    /\ d.demuxingSupported = Includes(SubSeq(t, 1, cut.n), "D")
    /\ d.muxingSupported = Includes(SubSeq(t, 1, cut.n), "E")

\* A list of format descriptors.
IsFormatList(list) ==
  \A i \in 1..Len(list) :
    /\ DOMAIN list[i] = { "abbreviation", "name", "demuxingSupported", "muxingSupported" }
    /\ list[i].demuxingSupported \in BOOLEAN
    /\ list[i].muxingSupported \in BOOLEAN
    /\ list[i].abbreviation # ""
    /\ list[i].name # ""

\* C13: the parser returns one descriptor per line of the shape, in the
\* order of the lines, with demuxingSupported and muxingSupported read from
\* the flags; the other lines are dropped, so the result is shorter than a
\* log with such a line and empty when no line has the shape; it returns for
\* every log.
C13_ParserContract ==
  /\ loadPc = "formats" => IsFormatList(getFormatsFromLog(loggedFormats))
  /\ loadPc = "done" =>
       LET shaped == ShapedLines(loggedFormats)
       IN  /\ Len(formats) = Cardinality(shaped)
           /\ \A i \in shaped :
                DescribesLine(formats[Cardinality({ m \in shaped : m <= i })],
                              Trim(loggedFormats[i]))
           /\ shaped # 1..Len(loggedFormats) => Len(formats) < Len(loggedFormats)
           /\ shaped = {} => formats = << >>

\* C13 witness: a log of a dropped line and a DE row has been parsed into the
\* one descriptor of the row.
C13_Witness ==
  /\ loadPc = "done"
  /\ Len(loggedFormats) = 2
  /\ Len(formats) = 1
  /\ formats[1].abbreviation = "mp4"
  /\ formats[1].demuxingSupported /\ formats[1].muxingSupported

\* The format listing is among the calls posted to the engine.
ListingPosted(w) == \E i \in 1..Len(w) : w[i].op = "formats"

\* C14: the format list is written once, by capability discovery: no other
\* step changes it, nothing changes it once discovery has finished, and the
\* format listing is posted to the engine once, after the load.
C14_FormatsWrittenOnce ==
  /\ [][ formats' # formats => loadPc = "formats" /\ loadPc' = "done" ]_vars
  /\ [][ loadPc = "done" =>
           formats' = formats /\ loadPc' = "done" /\ ~ListingPosted(worker') ]_vars
  /\ [][ ListingPosted(worker') /\ ~ListingPosted(worker) =>
           loadPc = "load" /\ loadPc' = "formats" ]_vars
  /\ [][ loadPc' = "load" => loadPc \in { "start", "load" } ]_vars

\* C14 witness: after discovery filled the list, progress was reported and a
\* dropped file was converted and downloaded.
C14_Witness ==
  /\ loadPc = "done"
  /\ formats # << >>
  /\ progress # 0
  /\ \E j \in 1..Len(jobs) : jobs[j].pc = "downloaded"

\* C15: an engine progress event changes the progress value only while
\* status is convert.start.
C15_ProgressOnlyWhileConverting ==
  [][ progress' # progress => status = "convert.start" ]_vars

\* C16: whenever status is convert.error, the error string is not empty.
C16_FailedHasMessage == status = "convert.error" => error # ""

\* C16 witness: of two overlapping jobs one has failed, after the drop of the
\* other had cleared the error, and the other is still in progress.
C16_Witness ==
  /\ status = "convert.error"
  /\ error = "Failed to convert video"
  /\ \E j \in 1..Len(jobs) : jobs[j].pc = "returned"
  /\ InProgress # {}

\* C17: between a job's write of "input.webm" and the completion of that
\* job's execute no other job writes the file: while a job waits for its
\* execute, the file holds the bytes of its own dropped file.
C17_ExecuteReadsOwnInput ==
  \A j \in 1..Len(jobs) :
    jobs[j].pc = "exec" => FsHas(INPUT_FILE) /\ FsRead(INPUT_FILE) = j

\* C18: every conversion execute posted to the engine names an output file
\* whose extension is selectedOutputFormat as it was when the execute was
\* issued, and that extension is the non-empty abbreviation of a discovered
\* format with muxingSupported = true.
C18_ExecuteHasMuxFormat ==
  \A i \in 1..Len(worker) :
    worker[i].op = "exec" =>
      \E f \in SelectableFormats : f # "" /\ worker[i].arg = "output." \o f

\* The calls of conversion jobs, as opposed to the format listing.
JobCalls(w) == { i \in 1..Len(w) : w[i].op \in { "writeFile", "exec", "readFile" } }

\* C19: no conversion job starts before capability discovery has completed.
\* A single-file drop that arrives while the engine is loading or while the
\* format-listing execute is pending is rejected as a validation failure
\* (status unchanged, error set to the unsupported-format message, nothing
\* posted to the engine, no job started), so no job exists and no job call
\* is posted until the listing has been parsed, and a conversion execute
\* never shares the engine with the format-listing execute.
C19_NoJobBeforeDiscovery ==
  /\ [] ( loadPc # "done" => jobs = << >> /\ JobCalls(worker) = {} )
  /\ [] ( ListingPosted(worker) => JobCalls(worker) = {} )
  /\ [][ \A name \in FileNames :
           ( loadPc # "done" /\ onDropped(<< name >>) )
           => ( /\ status' = status
                /\ error' = "Data format " \o LastSegment(name) \o " not supported"
                /\ NothingIssued ) ]_vars

\* C19 witness: a file with a supported extension was dropped while the
\* format-listing execute was pending, and was rejected.
C19_Witness ==
  /\ loadPc = "formats"
  /\ ListingPosted(worker)
  /\ status = "loaded"
  /\ error = "Data format mp4 not supported"
  /\ jobs = << >>

====
